---------------------------- MODULE Spec2Model ----------------------------
(***************************************************************************)
(* Model of the serial link of the Elbot controller: the SerialConnection  *)
(* component (read loop, G06 decoding, smoothMoveTo animation, Ok          *)
(* acknowledgment, manual and debounced sends) and the joint state owned   *)
(* by Home.                                                                *)
(*                                                                         *)
(* Representation.                                                         *)
(*  - Text is a sequence of one-character strings.                         *)
(*  - A number read from the wire is kept in hundredths (the text "45.0"   *)
(*    is 4500), with its sign apart so that "-0" stays distinct from "0".  *)
(*  - An angle held by the program (radians in the code) is kept as the    *)
(*    integer k standing for k * (pi / 180000) rad, a thousandth of a      *)
(*    degree; IEEE doubles are taken as exact at this resolution.          *)
(*  - NaN is the value NaN below; +Infinity only occurs as a duration.     *)
(*  - Times are milliseconds.                                              *)
(***************************************************************************)
EXTENDS Integers, Sequences, FiniteSets, TLC

Joints == <<"theta1", "theta2", "theta3", "theta4", "theta5", "theta6">>
JointSet == {Joints[i] : i \in 1..6}
AxisLetters == <<"X", "Y", "Z", "W", "U", "V">>

\* the double NaN: an integer no angle of the model takes
NaN == 0 - 999999999
Digits == <<"0", "1", "2", "3", "4", "5", "6", "7", "8", "9">>
IsDigit(c) == \E d \in 1..10 : Digits[d] = c
DigitVal(c) == (CHOOSE d \in 1..10 : Digits[d] = c) - 1

Abs(x) == IF x < 0 THEN -x ELSE x
MaxOf(S) == CHOOSE x \in S : \A y \in S : y <= x

(* ---------------------------- text helpers ----------------------------- *)

\* String.prototype.indexOf(c): the first index (1-based) of c in s, 0 when absent
IndexOf(s, c) ==
  IF \E i \in 1..Len(s) : s[i] = c
  THEN CHOOSE i \in 1..Len(s) : s[i] = c /\ \A k \in 1..(i - 1) : s[k] # c
  ELSE 0

IsSpace(c) == c \in {" ", "\n", "\r", "\t"}

RECURSIVE TrimLeft(_)
TrimLeft(s) == IF s # <<>> /\ IsSpace(Head(s)) THEN TrimLeft(Tail(s)) ELSE s

RECURSIVE TrimRight(_)
TrimRight(s) ==
  IF s # <<>> /\ IsSpace(s[Len(s)]) THEN TrimRight(SubSeq(s, 1, Len(s) - 1)) ELSE s

\* String.prototype.trim
Trim(s) == TrimRight(TrimLeft(s))

\* String.prototype.startsWith
StartsWith(s, p) == Len(s) >= Len(p) /\ SubSeq(s, 1, Len(p)) = p

\* the length of the run of digits of s that starts at index i
RECURSIVE DigitRun(_, _)
DigitRun(s, i) == IF i <= Len(s) /\ IsDigit(s[i]) THEN 1 + DigitRun(s, i + 1) ELSE 0

\* the value of the digits s[i .. i+n-1] read as a decimal integer
RECURSIVE DigitsValue(_, _, _)
DigitsValue(s, i, n) ==
  IF n = 0 THEN 0 ELSE DigitsValue(s, i, n - 1) * 10 + DigitVal(s[i + n - 1])

(* ------------------------- the G06 line decoder ------------------------ *)

\* The end (index after the last character) of the text that the pattern
\* [-+]?\d*\.?\d+ captures when matched at index i of s; 0 when it does not
\* match there.  Greedy with backtracking: a sign, the longest run of digits,
\* then "." and digits when a digit follows the ".", else the digits alone.
NumEnd(s, i) ==
  LET j == IF i <= Len(s) /\ s[i] \in {"-", "+"} THEN i + 1 ELSE i
      n1 == DigitRun(s, j)
      k == j + n1
      n2 == IF k <= Len(s) /\ s[k] = "." THEN DigitRun(s, k + 1) ELSE 0
  IN  IF n2 >= 1 THEN k + 1 + n2
      ELSE IF n1 >= 1 THEN k
      ELSE 0

\* parseFloat of the captured text s[i .. e-1]: sign and magnitude, the
\* magnitude in hundredths (fraction digits after the second are not kept)
ParseFloat(s, i, e) ==
  LET neg == s[i] = "-"
      j == IF s[i] \in {"-", "+"} THEN i + 1 ELSE i
      n1 == DigitRun(s, j)
      k == j + n1
      n2 == IF k < e /\ s[k] = "." THEN e - (k + 1) ELSE 0
      frac == IF n2 = 0 THEN 0
              ELSE IF n2 = 1 THEN DigitVal(s[k + 1]) * 10
              ELSE DigitVal(s[k + 1]) * 10 + DigitVal(s[k + 2])
  IN  [neg |-> neg, mag |-> DigitsValue(s, j, n1) * 100 + frac]

\* the number a parsed value stands for, in hundredths
Signed(f) == IF f.neg THEN -f.mag ELSE f.mag

\* trimmedCommand.match(/L([-+]?\d*\.?\d+)/) for the letter L: <<>> for null,
\* else <<parseFloat(match[1])>>.  Without the g flag match returns the
\* leftmost match.
Match(s, L) ==
  LET hits == {p \in 1..Len(s) : s[p] = L /\ NumEnd(s, p + 1) # 0}
  IN  IF hits = {} THEN <<>>
      ELSE LET p == CHOOSE q \in hits : \A r \in hits : q <= r
           IN  <<ParseFloat(s, p + 1, NumEnd(s, p + 1))>>

\* degToRad of a wire number (hundredths of a degree)
DegToRad(w) == w * 10

G06 == <<"G", "0", "6">>
DefaultFeed == [neg |-> FALSE, mag |-> 500 * 100]

\* AxisOf with the letters of theta1 and theta2 exchanged
AxisOfSwapped(j) ==
  IF j = "theta1" THEN 2 ELSE IF j = "theta2" THEN 1
  ELSE CHOOSE a \in 1..6 : Joints[a] = j

\* the axis (1..6) whose joint is j
AxisOf(j) == CHOOSE a \in 1..6 : Joints[a] = j

\* newJointStates of processCommand: one key per axis letter that matched
DecodeTarget(s) ==
  LET present == {j \in JointSet : Match(s, AxisLetters[AxisOf(j)]) # <<>>}
  IN  [j \in present |-> DegToRad(Signed(Match(s, AxisLetters[AxisOf(j)])[1]))]

\* feedRate of processCommand
DecodeFeed(s) == IF Match(s, "F") # <<>> THEN Match(s, "F")[1] ELSE DefaultFeed

\* Decode without the test of the G06 marker
DecodeAnyLine(command) ==
  LET t == Trim(command)
      target == IF t # <<>> THEN DecodeTarget(t) ELSE <<>>
  IN  [move |-> t # <<>> /\ DOMAIN target # {},
       target |-> target,
       feedRate |-> IF t # <<>> THEN DecodeFeed(t) ELSE DefaultFeed]

\* What processCommand makes of one line handed over by the read loop:
\* move says whether smoothMoveTo is called, with target and feedRate.
Decode(command) ==
  LET t == Trim(command)
      isG06 == t # <<>> /\ StartsWith(t, G06)
      target == IF isG06 THEN DecodeTarget(t) ELSE <<>>
  IN  [move |-> isG06 /\ DOMAIN target # {},
       target |-> target,
       feedRate |-> IF isG06 THEN DecodeFeed(t) ELSE DefaultFeed]

(* ------------------------- the G06 line encoder ------------------------ *)

\* the decimal digits of n >= 0
RECURSIVE IntText(_)
IntText(n) ==
  IF n < 10 THEN <<Digits[n + 1]>> ELSE IntText(n \div 10) \o <<Digits[(n % 10) + 1]>>

\* x || 0 for a number x: NaN and 0 are falsy
OrZero(x) == IF x = NaN THEN 0 ELSE x

\* ToFixed1 of the magnitude only: the sign is lost
ToFixed1NoSign(r) ==
  LET n == (Abs(r) + 50) \div 100
  IN  IntText(n \div 10) \o <<".">> \o <<Digits[(n % 10) + 1]>>

\* radToDeg(r).toFixed(1): the nearest tenth of a degree, a tie going away
\* from zero, the sign kept even when the digits are all 0
ToFixed1(r) ==
  LET n == (Abs(r) + 50) \div 100
  IN  (IF r < 0 THEN <<"-">> ELSE <<>>)
      \o IntText(n \div 10) \o <<".">> \o <<Digits[(n % 10) + 1]>>

\* the command of sendJointStates for the joint state js
SendLine(js) ==
  G06 \o <<" ", "X">> \o ToFixed1(OrZero(js["theta1"]))
      \o <<" ", "Y">> \o ToFixed1(OrZero(js["theta2"]))
      \o <<" ", "Z">> \o ToFixed1(OrZero(js["theta3"]))
      \o <<" ", "W">> \o ToFixed1(OrZero(js["theta4"]))
      \o <<" ", "U">> \o ToFixed1(OrZero(js["theta5"]))
      \o <<" ", "V">> \o ToFixed1(OrZero(js["theta6"]))
      \o <<" ", "F", "5", "0", "0", "\n">>

OkLine == <<"O", "k", "\n">>

(* --------------------------- the read loop ----------------------------- *)

\* The inner while loop of readSerialData on a buffer that already holds the
\* new chunk: cut off every command that ends with "\n"; rest is what stays
\* in the buffer, lines are the commands in the order they are handed over.
RECURSIVE ExtractLines(_)
ExtractLines(buffer) ==
  LET newlineIndex == IndexOf(buffer, "\n")
  IN  IF newlineIndex = 0 THEN [rest |-> buffer, lines |-> <<>>]
      ELSE LET command == SubSeq(buffer, 1, newlineIndex - 1)
               more == ExtractLines(SubSeq(buffer, newlineIndex + 1, Len(buffer)))
           IN  [rest |-> more.rest, lines |-> <<command>> \o more.lines]

\* Feed with the buffer declared inside the outer loop: what a read leaves
\* over is lost
FeedNoCarry(buffer, value) == ExtractLines(value)

\* one turn of the outer loop of readSerialData: buffer += value, then the
\* inner loop
Feed(buffer, value) == ExtractLines(buffer \o value)

(* ------------------------ smoothMoveTo, animate ------------------------ *)

Finite(num, den) == [kind |-> "ms", num |-> num, den |-> den]
Infinity == [kind |-> "Infinity", num |-> 0, den |-> 1]
NaNDuration == [kind |-> "NaN", num |-> 0, den |-> 1]

\* maxAngleDiffDeg of smoothMoveTo, in thousandths of a degree
MaxAngleDiff(startStates, targetStates) ==
  MaxOf({Abs(OrZero(targetStates[j]) - OrZero(startStates[j])) : j \in DOMAIN targetStates})

\* duration of smoothMoveTo, in ms, as the fraction num / den:
\* Math.max(100, maxAngleDiffDeg / feedRate * 60 * 1000) in IEEE arithmetic
\* (x / 0 is Infinity, 0 / 0 is NaN, x / -0 is -Infinity, Math.max with NaN
\* is NaN).  With the angle in thousandths of a degree and the feed rate in
\* hundredths, the quotient is maxDiff * 6000 / mag milliseconds.
Duration(startStates, targetStates, feedRate) ==
  LET maxDiff == MaxAngleDiff(startStates, targetStates)
  IN  IF feedRate.mag = 0
      THEN IF maxDiff = 0 THEN NaNDuration
           ELSE IF feedRate.neg THEN Finite(100, 1)
           ELSE Infinity
      ELSE IF feedRate.neg \/ maxDiff * 6000 <= 100 * feedRate.mag
           THEN Finite(100, 1)
           ELSE Finite(maxDiff * 6000, feedRate.mag)

\* progress < 1 in animate, elapsed ms after the start
ProgressBelowOne(duration, elapsed) ==
  CASE duration.kind = "Infinity" -> TRUE
    [] duration.kind = "NaN" -> FALSE
    [] OTHER -> elapsed * duration.den < duration.num

\* currentStates[joint] of animate: start + (target - start) * progress with
\* progress = Math.min(elapsed / duration, 1)
Interpolate(start, target, duration, elapsed) ==
  CASE duration.kind = "NaN" -> NaN
    [] duration.kind = "Infinity" -> start
    [] OTHER ->
         IF elapsed * duration.den < duration.num
         THEN start + ((target - start) * elapsed * duration.den) \div duration.num
         ELSE start + (target - start)

\* currentStates of animate: the joints of the target only
CurrentStates(a, elapsed) ==
  [j \in DOMAIN a.target |->
     Interpolate(OrZero(a.start[j]), OrZero(a.target[j]), a.duration, elapsed)]

\* Merge without the spread of prev: the update replaces the state
MergeReplace(prev, newJointStates) == newJointStates

\* setJointStates(prev => ({...prev, ...newJointStates})) of Home
Merge(prev, newJointStates) ==
  [j \in DOMAIN prev \cup DOMAIN newJointStates |->
     IF j \in DOMAIN newJointStates THEN newJointStates[j] ELSE prev[j]]

(* ------------------------------ bounds --------------------------------- *)

\* the clock advances in steps of TickMs up to MaxTime
TickMs == 60
MaxTime == 180
\* chunks the device sends in one run
MaxReads == 2
\* ports opened in one run
MaxConns == 1
\* lines handed to the transport in one run
MaxWritten == 1
\* ports opened in one run of the connection on its own
MaxReconns == 2
\* complete lines of a text given to the read loop on its own
MaxLines == 2
\* fields after G06 in a line given to the decoder on its own
MaxFields == 2

(* ------------------------- inputs of the model ------------------------- *)

\* "G06 X0.1 F50": theta1 to 0.1 degree at 50 degrees/minute
CmdMove == <<"G", "0", "6", " ", "X", "0", ".", "1", " ", "F", "5", "0">>
\* "G06 X0 F0": theta1 to 0 at feed rate 0
CmdFeedZero == <<"G", "0", "6", " ", "X", "0", " ", "F", "0">>
\* "G06 Y0.1", without its newline: theta2 to 0.1 degree at the default rate
CmdHead == <<"G", "0", "6", " ", "Y", "0", ".", "1">>

\* what one read() of the port can return
Chunks == {CmdMove \o <<"\n">>, CmdFeedZero \o <<"\n">>, CmdHead, <<"\n">>}

\* the chunks of a device that sends nothing but whole CmdMove lines
MoveChunks == {CmdMove \o <<"\n">>}

\* "X0.1", " G06 X0.1 F50" and "G06 F50": a field without the marker, a
\* command after a blank, the marker without an axis field
CmdNoMarker == <<"X", "0", ".", "1">>
CmdIndented == <<" ">> \o CmdMove
CmdFeedOnly == <<"G", "0", "6", " ", "F", "5", "0">>

\* the chunks of a device that sends such lines
RecvChunks == {CmdNoMarker \o <<"\n">>, CmdIndented \o <<"\n">>, CmdFeedOnly \o <<"\n">>}

\* "G06 Y0 F0": theta2 to 0 at feed rate 0
CmdStall == <<"G", "0", "6", " ", "Y", "0", " ", "F", "0">>

\* the chunks of a device that sends nothing but whole CmdStall lines
StallChunks == {CmdStall \o <<"\n">>}

\* the chunks of a device that sends a partial line or a whole command
ConnChunks == {CmdHead, CmdMove \o <<"\n">>}

\* the joints and values the operator sets with the sliders (0.15 degree)
EditJoints == {"theta2"}
EditValues == {150}

(* ------------------------------- state --------------------------------- *)

VARIABLES
  jointStates,   \* Home: jointStates
  port,          \* SerialConnection: port is not null
  isConnected,
  isConnecting,
  reader,        \* 0 for null, else the number of the port it reads
  writer,        \* 0 for null, else the number of the port it writes
  autoSend,
  isMoving,
  gen,           \* ports opened so far; the open port is number gen
  wOpen,         \* the writer stream of port gen accepts writes
  connPc,        \* connectToSerial: "idle", "requestPort" or "open"
  connCl,        \* what the render connectToSerial was clicked in closes over
  loop,          \* <<>>, or <<r>> for the running readSerialData
  anims,         \* the animate callbacks waiting for a frame
  okTimers,      \* pending setTimeout(sendOkResponse, 50)
  autoTimers,    \* pending setTimeout(sendJointStates, 100) of the effect
  discPc,        \* disconnectSerial: 0 idle, 1..3 the release it awaits
  discCl,        \* what the render disconnectSerial was clicked in closes over
  now,           \* Date.now()
  written,       \* the lines the transport took, in order
  reads,         \* chunks read so far
  autoSent,      \* the lines the effect's timers wrote since its last run
  burst,         \* the last run of the effect cleared a timer still pending
  lr,            \* the read loop on its own: a text and its delivery
  cd,            \* the codec on its own: an input and what was made of it
  lg,            \* the activity log on its own: log, and what was appended
  wr             \* the write path on its own: sends, the stream and the port

vars == <<jointStates, port, isConnected, isConnecting, reader, writer, autoSend,
          isMoving, gen, wOpen, connCl, connPc, loop, anims, okTimers,
          autoTimers, discPc, discCl, now, written, reads, autoSent, burst,
          lr, cd, lg, wr>>

ZeroStates == [j \in JointSet |-> 0]
NoClosure == [isMoving |-> FALSE, jointStates |-> ZeroStates,
              isConnected |-> FALSE, writer |-> 0]
NoHandles == [reader |-> 0, writer |-> 0, port |-> FALSE]
NoLines == [text |-> <<>>, rest |-> <<>>, buffer |-> <<>>, passed |-> <<>>,
            cut |-> FALSE]
NoCodec == [pc |-> "none", js |-> ZeroStates, line |-> <<>>, encoded |-> FALSE,
            out |-> [move |-> FALSE, target |-> <<>>,
                     feedRate |-> [neg |-> FALSE, mag |-> 0]]]

NoLog == [log |-> <<>>, all |-> <<>>]
NoWire == [issued |-> <<>>, sends |-> <<>>, queue |-> <<>>, port |-> <<>>, n |-> 0]

Program0 ==
  /\ jointStates = ZeroStates
  /\ port = FALSE
  /\ isConnected = FALSE
  /\ isConnecting = FALSE
  /\ reader = 0
  /\ writer = 0
  /\ autoSend = FALSE
  /\ isMoving = FALSE
  /\ gen = 0
  /\ wOpen = FALSE
  /\ connPc = "idle"
  /\ connCl = NoClosure
  /\ loop = <<>>
  /\ anims = <<>>
  /\ okTimers = <<>>
  /\ autoTimers = <<>>
  /\ discPc = 0
  /\ discCl = NoHandles
  /\ now = 0
  /\ written = <<>>
  /\ reads = 0
  /\ autoSent = <<>>
  /\ burst = FALSE

Init == Program0 /\ lr = NoLines /\ cd = NoCodec /\ lg = NoLog /\ wr = NoWire

\* s without its i-th element
Remove(s, i) == SubSeq(s, 1, i - 1) \o SubSeq(s, i + 1, Len(s))

\* writer.write(line) on writer w resolves: w writes the open port and its
\* stream is not closing or closed
Writable(w) == w # 0 /\ w = gen /\ wOpen

(* ----------------------- the auto-send effect -------------------------- *)

\* RunEffect without the cleanup: the timer of the previous run stays
RunEffectNoCleanup(timers, js, as, ic, w) ==
  IF as /\ ic
  THEN Append(timers, [due |-> now + 100, jointStates |-> js, writer |-> w,
                       isConnected |-> ic, cleanup |-> TRUE])
  ELSE timers

\* The effect with dependencies [jointStates, autoSend, isConnected], run
\* after a render in which one of them changed: the cleanup of the previous
\* run clears its timer, then a timer is set when autoSend && isConnected.
\* The timer closes over sendJointStates of that render: js, w, ic.
RunEffect(timers, js, as, ic, w) ==
  LET cleared == SelectSeq(timers, LAMBDA t : ~t.cleanup)
  IN  IF as /\ ic
      THEN Append(cleared, [due |-> now + 100, jointStates |-> js, writer |-> w,
                            isConnected |-> ic, cleanup |-> TRUE])
      ELSE cleared

\* whether that run of the effect clears a timer whose 100 ms have not
\* passed yet: the change comes less than 100 ms after the one before
ClearsPending(timers) ==
  \E i \in 1..Len(timers) : timers[i].cleanup /\ timers[i].due > now

(* ------------------------------ connect -------------------------------- *)

\* The Connect button (shown while !isConnected, disabled while
\* isConnecting): connectToSerial up to its first await.  Every function it
\* goes on to call (readSerialData, processCommand, smoothMoveTo,
\* sendOkResponse) is the one of this render and reads this render's state.
ConnectClickUpTo(n) ==
  /\ ~isConnected /\ ~isConnecting /\ connPc = "idle"
  /\ gen < n
  /\ isConnecting' = TRUE
  /\ connCl' = [isMoving |-> isMoving, jointStates |-> jointStates,
                isConnected |-> isConnected, writer |-> writer]
  /\ connPc' = "requestPort"
  /\ UNCHANGED <<jointStates, port, isConnected, reader, writer, autoSend, isMoving,
                 gen, wOpen, loop, anims, okTimers, autoTimers, discPc, discCl,
                 now, written, reads, autoSent, burst, lr, cd, lg, wr>>

ConnectClick == ConnectClickUpTo(MaxConns)

\* navigator.serial.requestPort() settles: the operator picks a port (ok), or
\* cancels and the catch and finally blocks run
ConnectRequestPort(ok) ==
  /\ connPc = "requestPort"
  /\ connPc' = IF ok THEN "open" ELSE "idle"
  /\ isConnecting' = ok
  /\ UNCHANGED <<jointStates, port, isConnected, reader, writer, autoSend, isMoving,
                 gen, wOpen, connCl, loop, anims, okTimers, autoTimers, discPc,
                 discCl, now, written, reads, autoSent, burst, lr, cd, lg, wr>>

\* NewLoop with a buffer that holds a partial line left by an earlier loop
NewLoopDirty(cl) == [buffer |-> CmdHead, cl |-> cl]

\* readSerialData(portReader) as it starts, in the closure cl:
\* let buffer = ''
NewLoop(cl) == [buffer |-> <<>>, cl |-> cl]

ConnectOutcomes == {"ok", "openFails", "readerFails", "writerFails"}

\* selectedPort.open() settles and connectToSerial runs to its end.  The
\* state updates of one continuation are rendered together.  outcome says
\* where it throws: in open(), while the reader is set up (lines 243-245),
\* while the writer is set up (lines 249-251), or nowhere.
ConnectOpen(outcome) ==
  /\ connPc = "open"
  /\ connPc' = "idle"
  /\ isConnecting' = FALSE
  /\ IF outcome = "openFails"
     THEN UNCHANGED <<port, isConnected, reader, writer, gen, wOpen, loop,
                      autoTimers, autoSent, burst>>
     ELSE /\ gen' = gen + 1
          /\ port' = TRUE
          /\ isConnected' = TRUE
          /\ reader' = IF outcome = "readerFails" THEN reader ELSE gen'
          /\ writer' = IF outcome = "ok" THEN gen' ELSE writer
          /\ wOpen' = (outcome = "ok")
          /\ loop' = IF outcome = "ok" THEN <<NewLoop(connCl)>> ELSE loop
          /\ autoTimers' = RunEffect(autoTimers, jointStates, autoSend, TRUE, writer')
          /\ autoSent' = <<>>
          /\ burst' = ClearsPending(autoTimers)
  /\ UNCHANGED <<jointStates, autoSend, isMoving, connCl, anims, okTimers, discPc,
                 discCl, now, written, reads, lr, cd, lg, wr>>

(* ----------------------------- read loop ------------------------------- *)

\* smoothMoveTo(targetStates, feedRate) called in the closure cl at time t:
\* <<>> when it returns at once, else the animation it starts
SmoothMoveTo(cl, targetStates, feedRate, t) ==
  IF cl.isMoving THEN <<>>
  ELSE <<[start |-> cl.jointStates,
          target |-> targetStates,
          feedRate |-> feedRate,
          startTime |-> t,
          duration |-> Duration(cl.jointStates, targetStates, feedRate),
          okWriter |-> cl.writer,
          okConnected |-> cl.isConnected]>>

\* processCommand(command) in the closure cl
ProcessCommand(cl, command, t) ==
  LET d == Decode(command)
  IN  IF d.move THEN SmoothMoveTo(cl, d.target, d.feedRate, t) ELSE <<>>

\* the animations the commands of one chunk start, in order
RECURSIVE ProcessAll(_, _, _)
ProcessAll(cl, lines, t) ==
  IF lines = <<>> THEN <<>>
  ELSE ProcessCommand(cl, Head(lines), t) \o ProcessAll(cl, Tail(lines), t)

\* portReader.read() resolves with a chunk: one turn of the loop of
\* readSerialData
ReadChunk(value) ==
  /\ loop # <<>>
  /\ reads < MaxReads
  /\ LET f == Feed(loop[1].buffer, value)
         started == ProcessAll(loop[1].cl, f.lines, now)
     IN  /\ loop' = <<[loop[1] EXCEPT !.buffer = f.rest]>>
         /\ anims' = anims \o started
         /\ isMoving' = (isMoving \/ started # <<>>)
  /\ reads' = reads + 1
  /\ UNCHANGED <<jointStates, port, isConnected, isConnecting, reader, writer,
                 autoSend, gen, wOpen, connCl, connPc, okTimers, autoTimers,
                 discPc, discCl, now, written, autoSent, burst, lr, cd, lg, wr>>

\* portReader.read() resolves done or rejects: the loop ends (and the catch
\* block logs the error); no state of the component is set
ReadEnd ==
  /\ loop # <<>>
  /\ loop' = <<>>
  /\ UNCHANGED <<jointStates, port, isConnected, isConnecting, reader, writer,
                 autoSend, isMoving, gen, wOpen, connCl, connPc, anims, okTimers,
                 autoTimers, discPc, discCl, now, written, reads, autoSent, burst, lr, cd, lg, wr>>

(* ------------------------------ animate -------------------------------- *)

\* One call of animate() for the animation a at time t, on the state
\* st = [jointStates, anims, isMoving, okTimers]: the joints are merged into
\* the live state by onDataReceived; below progress 1 the callback asks for
\* the next frame, else it sets isMoving to false and starts the 50 ms timer
\* of sendOkResponse.
AnimateOne(st, a, t) ==
  LET elapsed == t - a.startTime
      below == ProgressBelowOne(a.duration, elapsed)
  IN  [jointStates |-> Merge(st.jointStates, CurrentStates(a, elapsed)),
       anims |-> IF below THEN Append(st.anims, a) ELSE st.anims,
       isMoving |-> IF below THEN st.isMoving ELSE FALSE,
       okTimers |-> IF below THEN st.okTimers
                    ELSE Append(st.okTimers, [due |-> t + 50, writer |-> a.okWriter,
                                              isConnected |-> a.okConnected])]

\* the callbacks as of one frame, run in the order they were requested
RECURSIVE AnimateAll(_, _, _)
AnimateAll(st, as, t) ==
  IF as = <<>> THEN st ELSE AnimateAll(AnimateOne(st, Head(as), t), Tail(as), t)

\* no timer whose delay has passed is still waiting
NoTimerDue ==
  /\ \A i \in 1..Len(okTimers) : okTimers[i].due > now
  /\ \A i \in 1..Len(autoTimers) : autoTimers[i].due > now

\* The next animation frame, TickMs after the last: the clock moves on and
\* the browser runs every animate callback requested so far.  The frame is
\* also the step of the clock: a timer fires in the tick in which it falls
\* due.
Frame ==
  /\ now + TickMs <= MaxTime
  /\ NoTimerDue
  /\ now' = now + TickMs
  /\ LET st == AnimateAll([jointStates |-> jointStates, anims |-> <<>>,
                           isMoving |-> isMoving, okTimers |-> okTimers],
                          anims, now')
     IN  /\ jointStates' = st.jointStates
         /\ anims' = st.anims
         /\ isMoving' = st.isMoving
         /\ okTimers' = st.okTimers
  /\ IF anims # <<>>
     THEN /\ autoTimers' = RunEffect(autoTimers, jointStates', autoSend, isConnected, writer)
          /\ autoSent' = <<>>
          /\ burst' = ClearsPending(autoTimers)
     ELSE UNCHANGED <<autoTimers, autoSent, burst>>
  /\ UNCHANGED <<port, isConnected, isConnecting, reader, writer, autoSend, gen,
                 wOpen, connCl, connPc, loop, discPc, discCl, written, reads, lr, cd, lg, wr>>

\* the 50 ms timer of a finished animation fires: sendOkResponse() of the
\* render the read loop was started in
OkTimerFire(i) ==
  /\ i \in 1..Len(okTimers)
  /\ now >= okTimers[i].due
  /\ LET t == okTimers[i]
         writes == t.writer # 0 /\ t.isConnected /\ Writable(t.writer)
     IN  /\ writes => Len(written) < MaxWritten
         /\ written' = IF writes THEN Append(written, OkLine) ELSE written
  /\ okTimers' = Remove(okTimers, i)
  /\ UNCHANGED <<jointStates, port, isConnected, isConnecting, reader, writer,
                 autoSend, isMoving, gen, wOpen, connCl, connPc, loop, anims,
                 autoTimers, discPc, discCl, now, reads, autoSent, burst, lr, cd, lg, wr>>

(* ------------------------------- sends --------------------------------- *)

\* sendJointStates() of a render with state js, w, ic: <<>> when it returns
\* early or writer.write rejects, else <<command>>
SendJointStates(js, w, ic) ==
  IF w = 0 \/ ~ic THEN <<>>
  ELSE IF Writable(w) THEN <<SendLine(js)>>
  ELSE <<>>

\* the 100 ms timer of the effect fires
AutoTimerFire(i) ==
  /\ i \in 1..Len(autoTimers)
  /\ now >= autoTimers[i].due
  /\ LET t == autoTimers[i]
         out == SendJointStates(t.jointStates, t.writer, t.isConnected)
     IN  /\ out # <<>> => Len(written) < MaxWritten
         /\ written' = written \o out
         /\ autoSent' = autoSent \o out
  /\ autoTimers' = Remove(autoTimers, i)
  /\ UNCHANGED <<jointStates, port, isConnected, isConnecting, reader, writer,
                 autoSend, isMoving, gen, wOpen, connCl, connPc, loop, anims,
                 okTimers, discPc, discCl, now, reads, burst, lr, cd, lg, wr>>

\* the Send Joint States button (disabled while !isConnected)
ManualSend ==
  /\ isConnected
  /\ LET out == SendJointStates(jointStates, writer, isConnected)
     IN  /\ out # <<>> => Len(written) < MaxWritten
         /\ written' = written \o out
  /\ UNCHANGED <<jointStates, port, isConnected, isConnecting, reader, writer,
                 autoSend, isMoving, gen, wOpen, connCl, connPc, loop, anims,
                 okTimers, autoTimers, discPc, discCl, now, reads, autoSent, burst, lr, cd, lg, wr>>

\* the Auto-send checkbox (disabled while !isConnected)
ToggleAutoSend ==
  /\ isConnected
  /\ autoSend' = ~autoSend
  /\ autoTimers' = RunEffect(autoTimers, jointStates, autoSend', isConnected, writer)
  /\ autoSent' = <<>>
  /\ burst' = ClearsPending(autoTimers)
  /\ UNCHANGED <<jointStates, port, isConnected, isConnecting, reader, writer,
                 isMoving, gen, wOpen, connCl, connPc, loop, anims, okTimers,
                 discPc, discCl, now, written, reads, lr, cd, lg, wr>>

(* --------------------------- manual edits ------------------------------ *)

\* handleJointChange(jointName, value) of Home, from a slider or input
ManualEdit(jointName, value) ==
  /\ jointStates' = [jointStates EXCEPT ![jointName] = value]
  /\ autoTimers' = RunEffect(autoTimers, jointStates', autoSend, isConnected, writer)
  /\ autoSent' = <<>>
  /\ burst' = ClearsPending(autoTimers)
  /\ UNCHANGED <<port, isConnected, isConnecting, reader, writer, autoSend, isMoving,
                 gen, wOpen, connCl, connPc, loop, anims, okTimers, discPc, discCl,
                 now, written, reads, lr, cd, lg, wr>>

\* handleReset of JointControls: onJointChange(jointName, 0) for the six
\* joints, rendered together
Reset ==
  /\ jointStates' = [j \in DOMAIN jointStates |-> IF j \in JointSet THEN 0 ELSE jointStates[j]]
  /\ autoTimers' = RunEffect(autoTimers, jointStates', autoSend, isConnected, writer)
  /\ autoSent' = <<>>
  /\ burst' = ClearsPending(autoTimers)
  /\ UNCHANGED <<port, isConnected, isConnecting, reader, writer, autoSend, isMoving,
                 gen, wOpen, connCl, connPc, loop, anims, okTimers, discPc, discCl,
                 now, written, reads, lr, cd, lg, wr>>

(* ----------------------------- disconnect ------------------------------ *)

\* ReleaseFrom without the reader: reader.cancel() is never called
ReleaseFromWriter(k, h) ==
  IF k <= 2 /\ h.writer # 0 THEN 2
  ELSE IF k <= 3 /\ h.port THEN 3
  ELSE 4

\* The first release, from the k-th on, that disconnectSerial makes with the
\* handles h of its render: 1 reader.cancel(), 2 writer.close(),
\* 3 port.close(); 4 when none is left and it goes on to setIsConnected(false)
ReleaseFrom(k, h) ==
  IF k <= 1 /\ h.reader # 0 THEN 1
  ELSE IF k <= 2 /\ h.writer # 0 THEN 2
  ELSE IF k <= 3 /\ h.port THEN 3
  ELSE 4

\* disconnectSerial with the handles h has finished the releases before the
\* n-th and calls it (or, n = 4, ends).  done is the release that has just
\* resolved, 0 for none.  reader.cancel() ends the pending read of the loop;
\* writer.close() makes the stream refuse writes from the call on.
Release(done, n, h) ==
  /\ discPc' = IF n = 4 THEN 0 ELSE n
  /\ reader' = IF done = 1 THEN 0 ELSE reader
  /\ writer' = IF done = 2 THEN 0 ELSE writer
  /\ port' = IF done = 3 THEN FALSE ELSE port
  /\ loop' = IF n = 1 THEN <<>> ELSE loop
  /\ wOpen' = IF n = 2 /\ h.writer = gen THEN FALSE ELSE wOpen
  /\ isConnected' = IF n = 4 THEN FALSE ELSE isConnected
  /\ IF n = 4
     THEN /\ autoTimers' = RunEffect(autoTimers, jointStates, autoSend, FALSE, writer')
          /\ autoSent' = <<>>
          /\ burst' = ClearsPending(autoTimers)
     ELSE UNCHANGED <<autoTimers, autoSent, burst>>

\* the Disconnect button (shown while isConnected)
DisconnectClick ==
  /\ isConnected /\ discPc = 0
  /\ discCl' = [reader |-> reader, writer |-> writer, port |-> port]
  /\ Release(0, ReleaseFrom(1, discCl'), discCl')
  /\ UNCHANGED <<jointStates, isConnecting, autoSend, isMoving, gen, connCl, connPc,
                 anims, okTimers, now, written, reads, lr, cd, lg, wr>>

\* the release disconnectSerial awaits settles: resolved (ok), or rejected
\* and the catch block logs it
DiscResolve(ok) ==
  /\ discPc # 0
  /\ IF ok
     THEN Release(discPc, ReleaseFrom(discPc + 1, discCl), discCl)
     ELSE /\ discPc' = 0
          /\ UNCHANGED <<reader, writer, port, loop, wOpen, isConnected, autoTimers,
                         autoSent, burst>>
  /\ UNCHANGED <<jointStates, isConnecting, autoSend, isMoving, gen, connCl, connPc,
                 anims, okTimers, discCl, now, written, reads, lr, cd, lg, wr>>

\* every step but a read of the port
Others ==
  \/ ConnectClick
  \/ \E ok \in BOOLEAN : ConnectRequestPort(ok)
  \/ \E outcome \in ConnectOutcomes : ConnectOpen(outcome)
  \/ ReadEnd
  \/ Frame
  \/ \E i \in 1..Len(okTimers) : OkTimerFire(i)
  \/ \E i \in 1..Len(autoTimers) : AutoTimerFire(i)
  \/ ManualSend
  \/ ToggleAutoSend
  \/ \E j \in EditJoints, v \in EditValues : ManualEdit(j, v)
  \/ Reset
  \/ DisconnectClick
  \/ \E ok \in BOOLEAN : DiscResolve(ok)

Next ==
  \/ \E value \in Chunks : ReadChunk(value)
  \/ Others

Spec == Init /\ [][Next]_vars

\* the same program with a device that sends whole CmdMove lines only
NextSend ==
  \/ \E value \in MoveChunks : ReadChunk(value)
  \/ Others

SpecSend == Init /\ [][NextSend]_vars

\* the same program with a device that sends whole CmdStall lines only
NextStall ==
  \/ \E value \in StallChunks : ReadChunk(value)
  \/ Others

SpecStall == Init /\ [][NextStall]_vars

\* the program with a device that sends the lines of RecvChunks and an
\* operator who connects, edits a joint and disconnects
NextRecv ==
  \/ \E value \in RecvChunks : ReadChunk(value)
  \/ ConnectClick
  \/ \E ok \in BOOLEAN : ConnectRequestPort(ok)
  \/ \E outcome \in ConnectOutcomes : ConnectOpen(outcome)
  \/ ReadEnd
  \/ Frame
  \/ \E i \in 1..Len(okTimers) : OkTimerFire(i)
  \/ \E j \in EditJoints, v \in EditValues : ManualEdit(j, v)
  \/ DisconnectClick
  \/ \E ok \in BOOLEAN : DiscResolve(ok)

SpecRecv == Init /\ [][NextRecv]_vars

\* the connection with an operator who connects and disconnects again and
\* again, and a device that sends the chunks of ConnChunks
NextConn ==
  \/ ConnectClickUpTo(MaxReconns)
  \/ \E ok \in BOOLEAN : ConnectRequestPort(ok)
  \/ \E outcome \in ConnectOutcomes : ConnectOpen(outcome)
  \/ \E value \in ConnChunks : ReadChunk(value)
  \/ ReadEnd
  \/ DisconnectClick
  \/ \E ok \in BOOLEAN : DiscResolve(ok)

SpecConn == Init /\ [][NextConn]_vars

(* ---------------------- the read loop on its own ----------------------- *)

\* the lines a device sends in this specification
LineSet == {<<>>, <<"a">>, <<"a", "b">>, <<" ", "G", "\r">>}
\* text sent after the last newline
Partials == {<<>>, <<"a">>, <<"G", "0">>}

\* the texts of n complete lines
RECURSIVE TextsOf(_)
TextsOf(n) ==
  IF n = 0 THEN {<<>>}
  ELSE {t \o l \o <<"\n">> : t \in TextsOf(n - 1), l \in LineSet}

LineTexts == {t \o p : t \in UNION {TextsOf(n) : n \in 0..MaxLines}, p \in Partials}

ProgramIdle ==
  UNCHANGED <<jointStates, port, isConnected, isConnecting, reader, writer, autoSend,
              isMoving, gen, wOpen, connCl, connPc, loop, anims, okTimers,
              autoTimers, discPc, discCl, now, written, reads, autoSent, burst>>

InitLines ==
  /\ Program0
  /\ cd = NoCodec /\ lg = NoLog /\ wr = NoWire
  /\ \E t \in LineTexts :
       lr = [text |-> t, rest |-> t, buffer |-> <<>>, passed |-> <<>>, cut |-> FALSE]

\* read() resolves with the next n characters of the text: one turn of the
\* loop of readSerialData; passed collects the commands handed to
\* processCommand, cut says that some chunk so far ended inside a line
LinesRead(n) ==
  /\ n \in 1..Len(lr.rest)
  /\ LET f == Feed(lr.buffer, SubSeq(lr.rest, 1, n))
     IN  lr' = [lr EXCEPT !.rest = SubSeq(lr.rest, n + 1, Len(lr.rest)),
                          !.buffer = f.rest,
                          !.passed = lr.passed \o f.lines,
                          !.cut = lr.cut \/ (f.rest # <<>> /\ n < Len(lr.rest))]
  /\ UNCHANGED <<cd, lg, wr>>
  /\ ProgramIdle

NextLines == \E n \in 1..Len(lr.rest) : LinesRead(n)

SpecLines == InitLines /\ [][NextLines]_vars

(* ------------------------ the codec on its own ------------------------- *)

\* angles of the joint states given to the encoder, in thousandths of a
\* degree: tenths of a degree of either sign, and 0.04 and 45.05 degrees
CodecAngles == {-170000, -100, 0, 40, 45060}
CodecStates == [JointSet -> CodecAngles]

\* fields a line can carry after G06
Fields ==
  { <<" ", "X", "4", "5", ".", "0">>,
    <<" ", "F", "5", "0", "0">>,
    <<" ", "Y", "-", "3", "0">>,
    <<" ", "V", ".", "5">>,
    <<" ", "X", "7">>,
    <<" ", "F", "0">>,
    <<" ", "F", "-", "5">>,
    <<" ", "Z">>,
    <<" ", "Q", "9">> }

RECURSIVE FieldSeqs(_)
FieldSeqs(n) ==
  IF n = 0 THEN {<<>>}
  ELSE {t \o f : t \in FieldSeqs(n - 1), f \in Fields}

\* the lines given to the decoder: G06 lines, and lines that are not
CodecLines ==
  LET tails == UNION {FieldSeqs(n) : n \in 0..MaxFields}
  IN  {G06 \o t : t \in tails} \cup {<<"O", "k">>, <<" ">>, <<"g", "0", "6", " ", "X", "1">>}

InitCodec ==
  /\ Program0
  /\ lr = NoLines /\ lg = NoLog /\ wr = NoWire
  /\ \/ \E js \in CodecStates : cd = [NoCodec EXCEPT !.pc = "state", !.js = js]
     \/ \E l \in CodecLines : cd = [NoCodec EXCEPT !.pc = "line", !.line = l]

\* sendJointStates builds its command from the joint state
CodecEncode ==
  /\ cd.pc = "state"
  /\ cd' = [cd EXCEPT !.pc = "line", !.line = SendLine(cd.js), !.encoded = TRUE]
  /\ UNCHANGED <<lr, lg, wr>>
  /\ ProgramIdle

\* processCommand decodes the line
CodecDecode ==
  /\ cd.pc = "line"
  /\ cd' = [cd EXCEPT !.pc = "decoded", !.out = Decode(cd.line)]
  /\ UNCHANGED <<lr, lg, wr>>
  /\ ProgramIdle

NextCodec == CodecEncode \/ CodecDecode

SpecCodec == InitCodec /\ [][NextCodec]_vars

(* ----------------------- the activity log on its own ------------------- *)

\* entries appended in one run
MaxLogged == 12

\* messages the component logs; the timestamp put before a message is left
\* out
LogMessages == {"Connected to serial port", "Sent: Ok"}

\* AddToLog keeping ten of the entries it had
AddToLogSlice10(prev, message) ==
  LET from == IF Len(prev) > 10 THEN Len(prev) - 9 ELSE 1
  IN  Append(SubSeq(prev, from, Len(prev)), message)

\* the update of addToLog: [...prev.slice(-9), entry]
AddToLog(prev, message) ==
  LET from == IF Len(prev) > 9 THEN Len(prev) - 8 ELSE 1
  IN  Append(SubSeq(prev, from, Len(prev)), message)

\* addToLog(message); lg.all keeps what was appended since the log was
\* last cleared
LogAppend(message) ==
  /\ Len(lg.all) < MaxLogged
  /\ lg' = [log |-> AddToLog(lg.log, message), all |-> Append(lg.all, message)]
  /\ ProgramIdle
  /\ UNCHANGED <<lr, cd, wr>>

\* the Clear button: setLog([])
ClearLog ==
  /\ lg.log # <<>>
  /\ lg' = NoLog
  /\ ProgramIdle
  /\ UNCHANGED <<lr, cd, wr>>

NextLog ==
  \/ \E message \in LogMessages : LogAppend(message)
  \/ ClearLog

SpecLog == Init /\ [][NextLog]_vars

(* ----------------------- the write path on its own --------------------- *)

\* sends started in one run
MaxSends == 3

\* joint states a send finds
WireStates == {ZeroStates, [ZeroStates EXCEPT !["theta1"] = -170000]}

\* WriteCalls with the line handed over in two calls
WriteCallsSplit(line) ==
  <<SubSeq(line, 1, Len(line) \div 2), SubSeq(line, Len(line) \div 2 + 1, Len(line))>>

\* the calls of writer.write a send makes for its line: one call, with the
\* whole line
WriteCalls(line) == <<line>>

\* A send (sendJointStates or sendOkResponse past its guard) with its line:
\* it calls writer.write, which puts the chunk at the end of the queue of
\* the one stream piped to the port, and awaits it.  wr.issued keeps the
\* lines in the order their sends began.
WireSend(line) ==
  /\ wr.n < MaxSends
  /\ LET calls == WriteCalls(line)
         id == wr.n + 1
     IN  wr' = [wr EXCEPT !.n = id,
                          !.issued = Append(wr.issued, line),
                          !.queue = Append(wr.queue, [by |-> id, chunk |-> Head(calls)]),
                          !.sends = Append(wr.sends, [id |-> id, rest |-> Tail(calls)])]
  /\ ProgramIdle
  /\ UNCHANGED <<lr, cd, lg>>

\* sendJointStates, from the button or from the timer of the effect
WireSendJointStates(js) == WireSend(SendLine(js))

\* sendOkResponse
WireSendOk == WireSend(OkLine)

\* the stream hands the chunk at the head of its queue to the port
WireDrain ==
  /\ wr.queue # <<>>
  /\ wr' = [wr EXCEPT !.queue = Tail(wr.queue),
                      !.port = wr.port \o Head(wr.queue).chunk]
  /\ ProgramIdle
  /\ UNCHANGED <<lr, cd, lg>>

\* the write the i-th send awaits has resolved, its chunk is with the port:
\* the send goes on, to its next call of writer.write or to its end
WireResolved(i) ==
  /\ i \in 1..Len(wr.sends)
  /\ \A q \in 1..Len(wr.queue) : wr.queue[q].by # wr.sends[i].id
  /\ LET sd == wr.sends[i]
     IN  IF sd.rest = <<>>
         THEN wr' = [wr EXCEPT !.sends = Remove(wr.sends, i)]
         ELSE wr' = [wr EXCEPT !.sends[i].rest = Tail(sd.rest),
                               !.queue = Append(wr.queue, [by |-> sd.id,
                                                           chunk |-> Head(sd.rest)])]
  /\ ProgramIdle
  /\ UNCHANGED <<lr, cd, lg>>

NextWire ==
  \/ \E js \in WireStates : WireSendJointStates(js)
  \/ WireSendOk
  \/ WireDrain
  \/ \E i \in 1..Len(wr.sends) : WireResolved(i)

SpecWire == Init /\ [][NextWire]_vars

(* ------------------------------ properties ----------------------------- *)

\* the text delivered to the read loop so far
Delivered == SubSeq(lr.text, 1, Len(lr.text) - Len(lr.rest))

RECURSIVE JoinLines(_)
JoinLines(ls) ==
  IF ls = <<>> THEN <<>> ELSE Head(ls) \o <<"\n">> \o JoinLines(Tail(ls))

HasNewline(s) == \E i \in 1..Len(s) : s[i] = "\n"

\* C1: however the text is cut into chunks, the commands handed to
\* processCommand so far are those one chunk holding the delivered text
\* gives, in the same order: they are the delivered text up to its last
\* newline, cut at the newlines, and the text after the last newline stays
\* in the buffer and is not handed over.
C1_ChunkingInvariant ==
  /\ lr.passed = Feed(<<>>, Delivered).lines
  /\ JoinLines(lr.passed) \o lr.buffer = Delivered
  /\ ~HasNewline(lr.buffer)
  /\ \A i \in 1..Len(lr.passed) : ~HasNewline(lr.passed[i])

\* a text of two lines and a partial third, delivered whole in chunks of
\* which one ended inside a line
C1_Witness ==
  /\ lr.rest = <<>>
  /\ lr.cut
  /\ Len(lr.passed) = 2
  /\ lr.passed[2] # <<>>
  /\ lr.buffer # <<>>

\* C2: at most one trajectory is active at any time: a command read while
\* an animation runs starts no second one.
C2_SingleTrajectory == Len(anims) <= 1

\* the connection is Connected: open, with its writer, and no disconnect
\* under way
Connected == isConnected /\ discPc = 0 /\ Writable(writer)

\* C3: when the 50 ms timer of a motion that reached progress 1 fires while
\* the connection is Connected, exactly one Ok line is written.
C3_OkOncePerMotion ==
  [][\A i \in 1..Len(okTimers) :
       (OkTimerFire(i) /\ Connected) => written' = Append(written, OkLine)]_vars

\* C4: when a disconnect ends the connection no trajectory stays active:
\* the scheduler is idle and no animation is left to emit joint states.
C4_DisconnectStopsMotion ==
  [][(isConnected /\ ~isConnected') => (anims' = <<>> /\ ~isMoving')]_vars

\* C5: with auto-send on and the connection Connected, after the last
\* change of the joint state either one timer waits, which will send that
\* joint state, and nothing was sent since the change; or no timer waits
\* and exactly one line was sent since the change, the G06 line of the
\* joint state after it.  A change within 100 ms of the one before clears
\* the waiting timer, so a burst ends in one line.
C5_OneAutoSendPerBurst ==
  (autoSend /\ Connected) =>
    \/ /\ Len(autoTimers) = 1
       /\ autoSent = <<>>
       /\ autoTimers[1].jointStates = jointStates
       /\ autoTimers[1].due <= now + 100
    \/ /\ autoTimers = <<>>
       /\ autoSent = <<SendLine(jointStates)>>

\* a change came within 100 ms of the one before, and the one line of the
\* burst has been sent; the joint state it encodes is not the initial one
C5_Witness ==
  /\ autoSend /\ Connected
  /\ burst
  /\ autoTimers = <<>>
  /\ autoSent = <<SendLine(jointStates)>>
  /\ written = autoSent
  /\ jointStates # ZeroStates

\* the largest difference between start and target over the joints of the
\* target, in thousandths of a degree
MaxDelta(a) ==
  MaxOf({Abs(a.target[j] - a.start[j]) : j \in DOMAIN a.target})

\* the feed rate of a, in hundredths of a degree per minute
FeedOf(a) == Signed(a.feedRate)

\* C6: the duration of an accepted trajectory is
\* max(100, maxDelta / feedRate * 60000) ms; it is 100 ms when the target
\* equals the start.
C6_Duration ==
  \A i \in 1..Len(anims) :
    LET a == anims[i]
        d == a.duration
    IN  /\ FeedOf(a) # 0 =>
             /\ d.kind = "ms"
             /\ IF FeedOf(a) > 0 /\ MaxDelta(a) * 6000 >= 100 * FeedOf(a)
                THEN d.num * FeedOf(a) = MaxDelta(a) * 6000 * d.den
                ELSE d.num = 100 * d.den
        /\ MaxDelta(a) = 0 => (d.kind = "ms" /\ d.num = 100 * d.den)

Between(lo, x, hi) == (lo <= x /\ x <= hi) \/ (hi <= x /\ x <= lo)

\* C7: at a tick of the one active trajectory every joint of the target is
\* a number between its start and its target (progress lies in [0, 1]),
\* and is the target when the tick ends the trajectory; the tick leaves
\* every other joint as it was.
C7_Interpolation ==
  [][(now' # now /\ Len(anims) = 1) =>
       LET a == anims[1]
       IN  \A j \in JointSet :
             IF j \in DOMAIN a.target
             THEN /\ jointStates'[j] # NaN
                  /\ Between(OrZero(a.start[j]), jointStates'[j], a.target[j])
                  /\ anims' = <<>> => jointStates'[j] = a.target[j]
             ELSE jointStates'[j] = jointStates[j]]_vars

\* s[i] starts an unsigned decimal: a digit, or "." and a digit
UnsignedAt(s, i) ==
  \/ i <= Len(s) /\ IsDigit(s[i])
  \/ i + 1 <= Len(s) /\ s[i] = "." /\ IsDigit(s[i + 1])

\* the letter L carries a value in s: somewhere L is followed by a decimal,
\* signed or not
Carries(s, L) ==
  \E p \in 1..Len(s) :
    /\ s[p] = L
    /\ \/ UnsignedAt(s, p + 1)
       \/ p + 1 <= Len(s) /\ s[p + 1] \in {"-", "+"} /\ UnsignedAt(s, p + 2)

\* "G06 X45.0 F500"
ExampleLine == <<"G", "0", "6", " ", "X", "4", "5", ".", "0", " ", "F", "5", "0", "0">>

\* C8: the keys of the target decoded from a G06 line are the joints whose
\* letter carries a value in the line, X, Y, Z, W, U, V standing for theta1
\* to theta6, and no other key; "G06 X45.0 F500" gives theta1 = 45 degrees
\* alone, at feed rate 500.
C8_DecodeKeys ==
  (cd.pc = "decoded" /\ StartsWith(Trim(cd.line), G06)) =>
    /\ DOMAIN cd.out.target =
         {Joints[a] : a \in {b \in 1..6 : Carries(Trim(cd.line), AxisLetters[b])}}
    /\ DOMAIN cd.out.target \subseteq JointSet
    /\ cd.line = ExampleLine =>
         /\ cd.out.target = [j \in {"theta1"} |-> 45 * 1000]
         /\ cd.out.feedRate = [neg |-> FALSE, mag |-> 500 * 100]
         /\ cd.out.move

\* the example line, and a line with two letters that carry a value and one
\* that does not, have been decoded
C8_Witness ==
  /\ cd.pc = "decoded"
  /\ \/ cd.line = ExampleLine /\ DOMAIN cd.out.target = {"theta1"}
     \/ /\ cd.line = G06 \o <<" ", "Z">> \o <<" ", "V", ".", "5">>
        /\ DOMAIN cd.out.target = {"theta6"}

\* C9: the feed rate of every accepted trajectory is greater than 0.
C9_FeedRatePositive == \A i \in 1..Len(anims) : FeedOf(anims[i]) > 0

\* C10: the line made from a complete joint state decodes to a target that
\* has the six joints, each within 0.1 degree of the state.
C10_RoundTrip ==
  (cd.pc = "decoded" /\ cd.encoded) =>
    /\ cd.out.move
    /\ DOMAIN cd.out.target = JointSet
    /\ \A j \in JointSet : Abs(cd.out.target[j] - cd.js[j]) <= 100

\* a state with negative, rounded and zero angles has gone through
C10_Witness ==
  /\ cd.pc = "decoded" /\ cd.encoded
  /\ cd.js["theta1"] = -170000 /\ cd.out.target["theta1"] = -170000
  /\ cd.js["theta2"] = 45060 /\ cd.out.target["theta2"] = 45100
  /\ cd.js["theta3"] = 40 /\ cd.out.target["theta3"] = 0

\* the connection state is Connected: the port is open and neither a connect
\* nor a disconnect is under way
StateConnected == isConnected /\ discPc = 0 /\ connPc = "idle"

\* C11: whichever of its releases fail, a disconnect that has ended leaves
\* the connection Disconnected.
C11_DisconnectEndsDisconnected ==
  [][(discPc # 0 /\ discPc' = 0) => ~isConnected']_vars

\* C12: a line is written to the transport only while the connection state
\* is Connected, not while a connect or a disconnect is in progress.
C12_NoWriteUnlessConnected ==
  [][written' # written => StateConnected]_vars

\* C14: when a step of connect fails (the request is cancelled, open is
\* rejected, the set-up of the reader or of the writer throws) the
\* connection is not left Connected and not left Connecting.
C14_ConnectFailureNotConnected ==
  [][/\ ConnectRequestPort(FALSE) => (~isConnected' /\ ~isConnecting')
     /\ \A outcome \in ConnectOutcomes \ {"ok"} :
          ConnectOpen(outcome) => (~isConnected' /\ ~isConnecting')]_vars

\* C16: once auto-send is disabled or a disconnect has begun, a pending
\* debounced send writes no line.
C16_PendingSendCancelled ==
  [][\A i \in 1..Len(autoTimers) :
       (AutoTimerFire(i) /\ (~autoSend \/ ~isConnected \/ discPc # 0))
         => written' = written]_vars

\* the value after the last place of s where the letter L carries one
LastValue(s, L) ==
  LET p == CHOOSE q \in 1..Len(s) :
             /\ s[q] = L /\ NumEnd(s, q + 1) # 0
             /\ \A r \in (q + 1)..Len(s) : ~(s[r] = L /\ NumEnd(s, r + 1) # 0)
  IN  ParseFloat(s, p + 1, NumEnd(s, p + 1))

\* C19: the target decoded for a joint is the value of the last field of
\* its letter in the line.
C19_LastFieldWins ==
  cd.pc = "decoded" =>
    \A a \in 1..6 :
      Joints[a] \in DOMAIN cd.out.target =>
        cd.out.target[Joints[a]] =
          DegToRad(Signed(LastValue(Trim(cd.line), AxisLetters[a])))

\* C20: the start of a trajectory is the live joint state at the moment its
\* command is accepted.
C20_StartIsLiveState ==
  [][Len(anims') > Len(anims) /\ reads' # reads
       => anims'[Len(anims')].start = jointStates]_vars

\* C17: the log holds at most 10 entries, and they are the entries appended
\* last (since the log was cleared), unaltered and in the order they were
\* appended.
C17_LogBounded ==
  LET k == Len(lg.all)
      n == IF k > 10 THEN 10 ELSE k
  IN  /\ Len(lg.log) <= 10
      /\ lg.log = SubSeq(lg.all, k - n + 1, k)

\* twelve entries were appended and the oldest two are gone, one of them
\* unlike the entry now first
C17_Witness ==
  /\ Len(lg.all) = 12
  /\ Len(lg.log) = 10
  /\ lg.all[2] # lg.log[1]
  /\ lg.log[1] # lg.log[10]

RECURSIVE Concat(_)
Concat(ls) == IF ls = <<>> THEN <<>> ELSE Head(ls) \o Concat(Tail(ls))

\* l is a complete "G06 ... F500" line: one newline, at its end
IsG06Line(l) ==
  /\ Len(l) > 9
  /\ SubSeq(l, 1, 4) = <<"G", "0", "6", " ">>
  /\ SubSeq(l, Len(l) - 5, Len(l)) = <<" ", "F", "5", "0", "0", "\n">>
  /\ ~HasNewline(SubSeq(l, 1, Len(l) - 1))

\* C13: every line issued is a complete G06 line or Ok; what the port has
\* got is at any time the beginning of the lines issued, joined whole in the
\* order their writes were issued, and is all of them once every write has
\* resolved.
C13_WholeLinesInOrder ==
  LET all == Concat(wr.issued)
  IN  /\ \A i \in 1..Len(wr.issued) :
           wr.issued[i] = <<"O", "k", "\n">> \/ IsG06Line(wr.issued[i])
      /\ Len(wr.port) <= Len(all)
      /\ wr.port = SubSeq(all, 1, Len(wr.port))
      /\ (wr.queue = <<>> /\ wr.sends = <<>>) => wr.port = all

\* a G06 line is with the port while an Ok and another G06 line, issued
\* before its write resolved, wait in the queue
C13_Witness ==
  /\ Len(wr.issued) = 3
  /\ Len(wr.queue) = 2
  /\ Len(wr.sends) = 3
  /\ wr.port = wr.issued[1]
  /\ IsG06Line(wr.issued[1])
  /\ wr.issued[2] = <<"O", "k", "\n">>
  /\ IsG06Line(wr.issued[3])
  /\ wr.issued[3] # wr.issued[1]

\* the line carries a value for one of the six axis letters
HasAxisField(line) == \E a \in 1..6 : Carries(line, AxisLetters[a])

\* a read that hands over nothing but lines of the kind Ignored starts no
\* trajectory, changes no joint and writes nothing
ReadIgnores(Ignored(_)) ==
  \A value \in RecvChunks :
    LET lines == Feed(loop[1].buffer, value).lines
    IN  (ReadChunk(value) /\ \A i \in 1..Len(lines) : Ignored(lines[i]))
          => UNCHANGED <<anims, isMoving, jointStates, written, okTimers, autoTimers>>

\* C15 as stated: a received line that does not begin with G06, or begins
\* with G06 and carries no axis field, starts no trajectory, changes no
\* joint value and causes no write.
C15_UnrecognizedIgnored ==
  [][ReadIgnores(LAMBDA line : ~StartsWith(line, G06) \/ ~HasAxisField(line))]_vars

\* C15 amended: the same of a line that, with the white space at its ends
\* removed, does not begin with G06 or carries no axis field.
C15_TrimmedUnrecognizedIgnored ==
  [][ReadIgnores(LAMBDA line : ~StartsWith(Trim(line), G06)
                                 \/ ~HasAxisField(Trim(line)))]_vars

\* two lines, neither a command, have been read on an open connection and
\* nothing moves
C15_Witness ==
  /\ reads = 2 /\ now = 0
  /\ loop # <<>> /\ loop[1].buffer = <<>>
  /\ anims = <<>> /\ ~isMoving
  /\ written = <<>>

\* C21: when a read of the port fails (or ends) while the connection is
\* Connected, the connection does not stay Connected with no read loop.
C21_ReadFailureLeavesConnected ==
  [][(ReadEnd /\ StateConnected) => ~isConnected']_vars

\* C22: every accepted motion reaches progress 1 when frames keep coming
\* and time advances: for every active trajectory there is an elapsed time
\* at which animate finds progress not below 1.
C22_MotionTerminates ==
  \A i \in 1..Len(anims) :
    ~ProgressBelowOne(anims[i].duration, anims[i].duration.num + 1)

\* C23: while a trajectory is active only its ticks change the live joint
\* state; a manual edit changes it only while none is active.
C23_SingleWriter ==
  [][(anims # <<>> /\ jointStates' # jointStates) => now' # now]_vars

\* C25: while the connection is Connected a reader and a writer exist; once
\* it is Disconnected after a connection, reader, writer and port are null.
C25_HandlesMatchState ==
  /\ StateConnected => (reader # 0 /\ writer # 0)
  /\ (~isConnected /\ gen > 0) => (reader = 0 /\ writer = 0 /\ ~port)

\* C24: a connect starts only while the connection is Disconnected, with no
\* connect and no disconnect under way; when a port is opened, no read loop
\* and no open writer are left from a connection before; there is never
\* more than one read loop.
C24_OneLoopOneWriter ==
  [][/\ (connPc = "idle" /\ connPc' # "idle")
          => (~isConnected /\ ~isConnecting /\ discPc = 0)
     /\ \A outcome \in ConnectOutcomes :
          ConnectOpen(outcome) => (loop = <<>> /\ ~wOpen)
     /\ Len(loop') <= 1]_vars

\* the second port is open, with its read loop and its writer
C24_Witness ==
  /\ gen = 2 /\ isConnected
  /\ loop # <<>>
  /\ reader = 2 /\ writer = 2 /\ wOpen

\* C26: the read loop of a connection starts with an empty buffer, whatever
\* a loop before it left over, and a loop that ends hands over nothing of
\* what it had left.
C26_FreshBuffer ==
  [][/\ \A outcome \in ConnectOutcomes :
          (ConnectOpen(outcome) /\ loop' # <<>>) => loop'[1].buffer = <<>>
     /\ (loop # <<>> /\ loop' = <<>>) => anims' = anims]_vars

\* the first connection read "G06 Y0.1" without a newline, the second read
\* "G06 X0.1 F50\n": the one trajectory started has theta1 alone
C26_Witness ==
  /\ gen = 2 /\ reads = 2
  /\ loop # <<>> /\ loop[1].buffer = <<>>
  /\ Len(anims) = 1
  /\ DOMAIN anims[1].target = {"theta1"}

\* the joints that the targets of the active trajectories name
NamedJoints == UNION {DOMAIN anims[i].target : i \in 1..Len(anims)}

\* C27: after every edit, reset and tick the live joint state has a value
\* for each of theta1..theta6, and a tick changes no joint but those the
\* targets name.
C27_SixJointsKept ==
  [][/\ DOMAIN jointStates' = JointSet
     /\ now' # now =>
          \A j \in JointSet \ NamedJoints : jointStates'[j] = jointStates[j]]_vars

\* a tick has moved theta1 part of its way and left the edited theta2 alone
C27_Witness ==
  /\ anims # <<>>
  /\ now > anims[1].startTime
  /\ DOMAIN anims[1].target = {"theta1"}
  /\ jointStates["theta1"] # 0
  /\ jointStates["theta2"] = 150
  /\ DOMAIN jointStates = JointSet

=============================================================================
